---------------------------- MODULE Spec2Model ----------------------------
(***************************************************************************)
(* Model of the C# binding generator of interoptopus                       *)
(* (crates/backend_csharp/src/interop.rs) and of the field-visibility      *)
(* resolution of the #[ffi_type] macro (proc_macros/src/types.rs).         *)
(*                                                                         *)
(* Four specifications share the module:                                   *)
(*   Spec         one generation run of Interop::write_all, step by step   *)
(*   SpecEmit     the type filter Interop::should_emit_by_type             *)
(*   SpecMarshal  the marshalling classifier Interop::is_custom_marshalled *)
(*   SpecVis      Attributes::visibility_for_field                         *)
(***************************************************************************)
EXTENDS Integers, Sequences, FiniteSets, TLC

VARIABLES
    cfg,          \* the Interop configuration (struct Interop, minus inventory)
    functions,    \* inventory.functions(): sequence of Function
    constants,    \* inventory.constants(): sequence of Constant
    pc,           \* position of the running write_all
    scaffold,     \* name of the class scaffold currently open ("" when none)
    trace,        \* what has been written to the IndentWriter so far
    result,       \* what write_to gave back to its caller
    types,        \* inventory.ctypes(): the types handed to the type filter
    emitted,      \* the types for which a definition was emitted
    ty,           \* the type handed to the marshalling classifier
    depth,        \* nesting depth of ty
    marshalled,   \* answer of is_custom_marshalled(ty)
    attrs,        \* Attributes.visibility: HashMap<String, String>
    field,        \* the syn::Field handed to visibility_for_field
    visibility    \* outcome of visibility_for_field

genVars     == <<functions, constants, pc, scaffold, trace, result>>
emitVars    == <<types, emitted>>
marshalVars == <<ty, depth, marshalled>>
visVars     == <<attrs, field, visibility>>
vars        == <<cfg, genVars, emitVars, marshalVars, visVars>>

----------------------------------------------------------------------------
(* Bounds of the model. *)

MaxFunctions == 1
MaxConstants == 1
MaxTypes     == 2
MaxDepth     == 4

----------------------------------------------------------------------------
(* lang::Type and pattern::TypePattern.  A type is a record                *)
(*   kind     the Type variant                                            *)
(*   pattern  the TypePattern variant when kind = "Pattern", else ""      *)
(*   module   meta().module() of the variants that carry a Meta           *)
(*   sig      <<Signature>> for FnPointer and NamedCallback, else <<>>    *)
(* The payload of Array, ReadPointer, ReadWritePointer and of the other    *)
(* patterns is never read by the modelled functions and is left out.       *)

NoMeta == "<no meta>"

ModuleIds == {"geo", "math"}

Signature(params, rval) == [params |-> params, rval |-> rval]

Plain(kind) == [kind |-> kind, pattern |-> "", module |-> NoMeta, sig |-> <<>>]

Named(kind, m) == [kind |-> kind, pattern |-> "", module |-> m, sig |-> <<>>]

PlainPattern(p) == [kind |-> "Pattern", pattern |-> p, module |-> NoMeta, sig |-> <<>>]

NamedPattern(p, m) == [kind |-> "Pattern", pattern |-> p, module |-> m, sig |-> <<>>]

FnPointer(s) == [kind |-> "FnPointer", pattern |-> "", module |-> NoMeta, sig |-> <<s>>]

NamedCallback(m, s) == [kind |-> "Pattern", pattern |-> "NamedCallback", module |-> m, sig |-> <<s>>]

PlainKinds == {"Primitive", "Array", "ReadPointer", "ReadWritePointer"}

NamedKinds == {"Enum", "Opaque", "Composite"}

PlainPatterns == {"CStrPointer", "APIVersion", "Bool", "CChar", "Utf8String"}

NamedPatterns == {"Slice", "SliceMut", "Option", "Result", "AsyncCallback", "Vec"}

LeafTypes ==
    {Plain(k) : k \in PlainKinds}
    \cup {Named(k, m) : k \in NamedKinds, m \in ModuleIds}
    \cup {PlainPattern(p) : p \in PlainPatterns}
    \cup {NamedPattern(p, m) : p \in NamedPatterns, m \in ModuleIds}

Primitive == Plain("Primitive")

IsPattern(t, p) == t.kind = "Pattern" /\ t.pattern = p

(* signature().params() followed by signature().rval(): the `types` vector *)
(* both signature walkers build.                                           *)
SigTypes(s) == Append(s.params, s.rval)

Range(seq) == {seq[i] : i \in 1..Len(seq)}

----------------------------------------------------------------------------
(* Marshalling classifier.                                                 *)

should_emit_marshaller(t) ==
    CASE t.kind = "Array"     -> TRUE
      [] t.kind = "Composite" -> TRUE
      [] OTHER                -> FALSE

RECURSIVE is_custom_marshalled(_)
RECURSIVE has_custom_marshalled_types(_)
RECURSIVE has_custom_marshalled_delegate(_)

(* The delegate walker with the leaf types counted as well: what it would  *)
(* be if it asked is_custom_marshalled of every type of the signature.     *)
has_custom_marshalled_delegate_leaves(signature) ==
    \E x \in Range(SigTypes(signature)) : is_custom_marshalled(x)

has_custom_marshalled_delegate(signature) ==
    \E x \in Range(SigTypes(signature)) :
        CASE x.kind = "FnPointer"          -> has_custom_marshalled_types(x.sig[1])
          [] IsPattern(x, "NamedCallback") -> has_custom_marshalled_types(x.sig[1])
          [] OTHER                         -> FALSE

has_custom_marshalled_types(signature) ==
    \E x \in Range(SigTypes(signature)) : is_custom_marshalled(x)

(* The classifier without its Slice / SliceMut arms.                       *)
is_custom_marshalled_no_slices(x) ==
    \/ should_emit_marshaller(x)
    \/ CASE x.kind = "FnPointer"          -> has_custom_marshalled_delegate(x.sig[1])
         [] IsPattern(x, "NamedCallback") -> has_custom_marshalled_delegate(x.sig[1])
         [] OTHER                         -> FALSE

is_custom_marshalled(x) ==
    \/ should_emit_marshaller(x)
    \/ CASE x.kind = "FnPointer"          -> has_custom_marshalled_delegate(x.sig[1])
         [] IsPattern(x, "NamedCallback") -> has_custom_marshalled_delegate(x.sig[1])
         [] IsPattern(x, "Slice")         -> TRUE
         [] IsPattern(x, "SliceMut")      -> TRUE
         [] OTHER                         -> FALSE

has_overloadable(signature) ==
    \E i \in 1..Len(signature.params) :
        \/ IsPattern(signature.params[i], "NamedCallback")
        \/ IsPattern(signature.params[i], "AsyncCallback")

----------------------------------------------------------------------------
(* Emission predicates.                                                    *)

WriteTypes == {"Namespace", "NamespaceAndInteroptopusGlobal", "All"}

(* interoptopus::backend::is_global_type: the cross-cutting global types   *)
(* the specification names, the boolean wrapper and the API-version        *)
(* marker.                                                                 *)
is_global_type(t) == IsPattern(t, "Bool") \/ IsPattern(t, "APIVersion")

(* should_emit_by_meta with the comparison dropped.                        *)
should_emit_by_meta_any(self, module) == module \in ModuleIds

should_emit_by_meta(self, module) == module = self.namespace_id

(* The filter with the owning module ignored for user-defined types.       *)
should_emit_by_type_no_owner(self, t) ==
    IF self.write_types = "All" THEN TRUE
    ELSE IF is_global_type(t) THEN self.write_types = "NamespaceAndInteroptopusGlobal"
    ELSE t.kind \notin {"Array", "ReadPointer", "ReadWritePointer"}

should_emit_by_type(self, t) ==
    IF self.write_types = "All" THEN TRUE
    ELSE IF is_global_type(t) THEN self.write_types = "NamespaceAndInteroptopusGlobal"
    ELSE CASE t.kind = "Primitive"        -> self.write_types = "NamespaceAndInteroptopusGlobal"
           [] t.kind = "Array"            -> FALSE
           [] t.kind = "Enum"             -> should_emit_by_meta(self, t.module)
           [] t.kind = "Opaque"           -> should_emit_by_meta(self, t.module)
           [] t.kind = "Composite"        -> should_emit_by_meta(self, t.module)
           [] t.kind = "FnPointer"        -> TRUE
           [] t.kind = "ReadPointer"      -> FALSE
           [] t.kind = "ReadWritePointer" -> FALSE
           [] t.kind = "Pattern" ->
                CASE t.pattern = "CStrPointer"   -> TRUE
                  [] t.pattern = "APIVersion"    -> TRUE
                  [] t.pattern = "Slice"         -> should_emit_by_meta(self, t.module)
                  [] t.pattern = "SliceMut"      -> should_emit_by_meta(self, t.module)
                  [] t.pattern = "Option"        -> should_emit_by_meta(self, t.module)
                  [] t.pattern = "Result"        -> should_emit_by_meta(self, t.module)
                  [] t.pattern = "Bool"          -> self.write_types = "NamespaceAndInteroptopusGlobal"
                  [] t.pattern = "CChar"         -> FALSE
                  [] t.pattern = "NamedCallback" -> should_emit_by_meta(self, t.module)
                  [] t.pattern = "AsyncCallback" -> should_emit_by_meta(self, t.module)
                  [] t.pattern = "Vec"           -> should_emit_by_meta(self, t.module)
                  [] t.pattern = "Utf8String"    -> FALSE

has_emittable_functions(self, fs) ==
    \E i \in 1..Len(fs) : should_emit_by_meta(self, fs[i].module)

(* has_emittable_constants asking for any constant, whatever its module.   *)
has_emittable_constants_any(self, cs) == Len(cs) > 0

has_emittable_constants(self, cs) ==
    \E i \in 1..Len(cs) : should_emit_by_meta(self, cs[i].module)

----------------------------------------------------------------------------
(* Configuration and inventory of a generation run.                        *)

Fqn == "geo" :> "Acme.Geo" @@ "math" :> "Acme.Math"

(* Option<String>: <<>> is None, <<s>> is Some(s).                         *)
ClassConstants == {<<>>, <<"Interop">>, <<"Constants">>}

NamespaceMappings == {[id \in d |-> Fqn[id]] : d \in SUBSET ModuleIds}

Configs ==
    [class : {"Interop"}, class_constants : ClassConstants,
     namespace_mappings : NamespaceMappings, namespace_id : ModuleIds,
     write_types : WriteTypes]

(* Interop::default(): write_types is NamespaceAndInteroptopusGlobal.      *)
DefaultWriteTypes == "NamespaceAndInteroptopusGlobal"

FunctionSignatures ==
    {Signature(<<Primitive>>, Primitive),
     Signature(<<NamedPattern("AsyncCallback", "geo")>>, Primitive),
     Signature(<<Primitive, NamedCallback("geo", Signature(<<>>, Primitive))>>, Primitive)}

Functions == [module : ModuleIds, signature : FunctionSignatures]

Constants == [module : ModuleIds]

SeqsUpTo(S, n) == UNION {[1..k -> S] : k \in 0..n}

Running == [kind |-> "Running", id |-> ""]

Ok == [kind |-> "Ok", id |-> ""]

Panic(id) == [kind |-> "Panic", id |-> id]

Entry(step) == [step |-> step, scaffold |-> scaffold]

(* namespace_for_id returning a fallback name for an unmapped id.          *)
namespace_for_id_or_default(self, id) ==
    IF id \in DOMAIN self.namespace_mappings
    THEN [panic |-> FALSE, value |-> self.namespace_mappings[id]]
    ELSE [panic |-> FALSE, value |-> "My.Company"]

(* The String returned, or the panic raised with the id in its message.    *)
namespace_for_id(self, id) ==
    IF id \in DOMAIN self.namespace_mappings
    THEN [panic |-> FALSE, value |-> self.namespace_mappings[id]]
    ELSE [panic |-> TRUE, value |-> id]

(* The ids a step resolves, in order; the first unmapped one panics.       *)
Unmapped(self, ids) ==
    {i \in 1..Len(ids) : namespace_for_id(self, ids[i]).panic}

FirstUnmapped(self, ids) ==
    ids[CHOOSE i \in Unmapped(self, ids) : \A j \in Unmapped(self, ids) : i <= j]

(* The file header substitutes {INTEROP_NAMESPACE}: it resolves the        *)
(* current namespace id.                                                   *)
header_namespace_ids(self) == <<self.namespace_id>>

(* The imports resolve the owning module of every item of the inventory.   *)
imports_namespace_ids(fs, cs) ==
    [i \in 1..Len(fs) |-> fs[i].module] \o [i \in 1..Len(cs) |-> cs[i].module]

(* class_constants.is_none() || class_constants == Some(class)             *)
SingleScaffold(self) ==
    self.class_constants = <<>> \/ self.class_constants = <<self.class>>

----------------------------------------------------------------------------
(* One run of write_all (called by Bindings::write_to), one action per     *)
(* call it makes.                                                          *)

GenIdle ==
    /\ functions = <<>> /\ constants = <<>> /\ pc = "idle" /\ scaffold = ""
    /\ trace = <<>> /\ result = Running

EmitIdle == types = {} /\ emitted = [done |-> FALSE, types |-> {}]

MarshalIdle == ty = Primitive /\ depth = 0 /\ marshalled = [done |-> FALSE, value |-> FALSE]

VisIdle == attrs = <<>> /\ field = [name |-> "", vis |-> "Inherited"] /\ visibility = "None"

Init ==
    /\ cfg \in Configs
    /\ functions \in SeqsUpTo(Functions, MaxFunctions)
    /\ constants \in SeqsUpTo(Constants, MaxConstants)
    /\ pc = "header"
    /\ scaffold = ""
    /\ trace = <<>>
    /\ result = Running
    /\ EmitIdle /\ MarshalIdle /\ VisIdle

Resolve(ids, step, next) ==
    IF Unmapped(cfg, ids) # {}
    THEN /\ pc' = "panicked"
         /\ result' = Panic(FirstUnmapped(cfg, ids))
         /\ UNCHANGED trace
    ELSE /\ pc' = next
         /\ trace' = Append(trace, Entry(step))
         /\ UNCHANGED result

Write(step, next) ==
    /\ trace' = Append(trace, Entry(step))
    /\ pc' = next

write_file_header_comments ==
    /\ pc = "header"
    /\ Resolve(header_namespace_ids(cfg), "header", "imports")
    /\ UNCHANGED <<cfg, functions, constants, scaffold, emitVars, marshalVars, visVars>>

write_imports ==
    /\ pc = "imports"
    /\ Resolve(imports_namespace_ids(functions, constants), "imports", "namespace")
    /\ UNCHANGED <<cfg, functions, constants, scaffold, emitVars, marshalVars, visVars>>

write_namespace_context ==
    /\ pc = "namespace"
    /\ Write("namespace", "classes")
    /\ UNCHANGED <<cfg, functions, constants, scaffold, result, emitVars, marshalVars, visVars>>

(* A class scaffold is opened: the entry carries the class name.           *)
OpenClass(name, next) ==
    /\ scaffold' = name
    /\ trace' = Append(trace, [step |-> "class", scaffold |-> name])
    /\ pc' = next

SkipClass(next) ==
    /\ pc' = next
    /\ UNCHANGED <<scaffold, trace>>

(* Lines 333-335: the one scaffold of the single-class configuration.      *)
write_class_context_single ==
    /\ pc = "classes"
    /\ SingleScaffold(cfg)
    /\ IF has_emittable_functions(cfg, functions) \/ has_emittable_constants(cfg, constants)
       THEN OpenClass(cfg.class, "native_lib")
       ELSE SkipClass("types")
    /\ UNCHANGED <<cfg, functions, constants, result, emitVars, marshalVars, visVars>>

(* Lines 352-354: the constants scaffold of the two-class configuration.   *)
write_class_context_constants ==
    /\ pc = "classes"
    /\ ~SingleScaffold(cfg)
    /\ IF has_emittable_constants(cfg, constants)
       THEN OpenClass(cfg.class_constants[1], "constants")
       ELSE SkipClass("functions_class")
    /\ UNCHANGED <<cfg, functions, constants, result, emitVars, marshalVars, visVars>>

(* Lines 362-364: the functions scaffold of the two-class configuration.   *)
write_class_context_functions ==
    /\ pc = "functions_class"
    /\ IF has_emittable_functions(cfg, functions)
       THEN OpenClass(cfg.class, "native_lib")
       ELSE SkipClass("types")
    /\ UNCHANGED <<cfg, functions, constants, result, emitVars, marshalVars, visVars>>

(* After the ABI guard the single scaffold goes on to the trampolines      *)
(* (line 342), the functions scaffold of the two-class configuration to    *)
(* the functions (line 371).                                               *)
AfterAbiGuard == IF SingleScaffold(cfg) THEN "trampolines" ELSE "functions"

(* The linkage declaration and the ABI guard written in the wrong order.   *)
write_native_lib_string_after_guard ==
    /\ pc = "native_lib"
    /\ trace' = trace \o <<Entry("abi_guard"), Entry("native_lib")>>
    /\ pc' = AfterAbiGuard
    /\ UNCHANGED <<cfg, functions, constants, scaffold, result, emitVars, marshalVars, visVars>>

write_native_lib_string ==
    /\ pc = "native_lib"
    /\ Write("native_lib", "abi_guard")
    /\ UNCHANGED <<cfg, functions, constants, scaffold, result, emitVars, marshalVars, visVars>>

write_abi_guard ==
    /\ pc = "abi_guard"
    /\ Write("abi_guard", AfterAbiGuard)
    /\ UNCHANGED <<cfg, functions, constants, scaffold, result, emitVars, marshalVars, visVars>>

write_pattern_async_trampoline_initializers ==
    /\ pc = "trampolines"
    /\ Write("trampolines", "constants")
    /\ UNCHANGED <<cfg, functions, constants, scaffold, result, emitVars, marshalVars, visVars>>

(* write_constants closes the constants scaffold in the two-class          *)
(* configuration (line 359); in the single scaffold the functions follow.  *)
write_constants ==
    /\ pc = "constants"
    /\ trace' = Append(trace, Entry("constants"))
    /\ IF SingleScaffold(cfg)
       THEN pc' = "functions" /\ UNCHANGED scaffold
       ELSE pc' = "functions_class" /\ scaffold' = ""
    /\ UNCHANGED <<cfg, functions, constants, result, emitVars, marshalVars, visVars>>

(* write_functions is the last call of its scaffold, which then closes.    *)
write_functions ==
    /\ pc = "functions"
    /\ trace' = Append(trace, Entry("functions"))
    /\ pc' = "types"
    /\ scaffold' = ""
    /\ UNCHANGED <<cfg, functions, constants, result, emitVars, marshalVars, visVars>>

write_type_definitions ==
    /\ pc = "types"
    /\ Write("types", "patterns")
    /\ UNCHANGED <<cfg, functions, constants, scaffold, result, emitVars, marshalVars, visVars>>

write_patterns ==
    /\ pc = "patterns"
    /\ Write("patterns", "builtins")
    /\ UNCHANGED <<cfg, functions, constants, scaffold, result, emitVars, marshalVars, visVars>>

write_builtins ==
    /\ pc = "builtins"
    /\ trace' = Append(trace, Entry("builtins"))
    /\ pc' = "done"
    /\ result' = Ok
    /\ UNCHANGED <<cfg, functions, constants, scaffold, emitVars, marshalVars, visVars>>

Next ==
    \/ write_file_header_comments
    \/ write_imports
    \/ write_namespace_context
    \/ write_class_context_single
    \/ write_class_context_constants
    \/ write_class_context_functions
    \/ write_native_lib_string
    \/ write_abi_guard
    \/ write_pattern_async_trampoline_initializers
    \/ write_constants
    \/ write_functions
    \/ write_type_definitions
    \/ write_patterns
    \/ write_builtins

Spec == Init /\ [][Next]_vars

----------------------------------------------------------------------------
(* Properties of the generation run.                                       *)

Steps(tr) == [i \in 1..Len(tr) |-> tr[i].step]

Written(step) == \E i \in 1..Len(trace) : trace[i].step = step

(* The ids the run resolves through the namespace-mapping table.           *)
ResolvedIds ==
    Range(header_namespace_ids(cfg)) \cup Range(imports_namespace_ids(functions, constants))

UnmappedIds == {id \in ResolvedIds : id \notin DOMAIN cfg.namespace_mappings}

(* C5, as claimed: a run that resolves an id without an entry in the       *)
(* namespace-mapping table ends with an error value naming the missing id  *)
(* given back to the caller, not with a process abort.                     *)
C5_MissingMappingIsErrorValue ==
    (pc \in {"done", "panicked"} /\ UnmappedIds # {}) =>
        /\ result.kind = "Err"
        /\ result.id \in UnmappedIds

(* C5, amended: resolving an id without an entry in the namespace-mapping  *)
(* table panics with a message naming that id, so write_to gives its       *)
(* caller neither Ok nor Err and the run never completes; a run completes  *)
(* with Ok only if every id it resolves is mapped, and resolving a mapped  *)
(* id returns its fully-qualified name.                                    *)
C5_MissingMappingPanics ==
    /\ pc = "panicked" =>
        /\ result.kind = "Panic"
        /\ result.id \in UnmappedIds
        /\ ~Written("builtins")
    /\ (UnmappedIds # {} /\ pc \notin {"header", "imports"}) => pc = "panicked"
    /\ pc = "done" => (result = Ok /\ UnmappedIds = {})
    /\ pc \notin {"done", "panicked"} => result = Running
    /\ \A id \in DOMAIN cfg.namespace_mappings :
           namespace_for_id(cfg, id) = [panic |-> FALSE, value |-> Fqn[id]]

(* C5 witness: the imports met the unmapped module "geo" of an item after  *)
(* the header had been written for the mapped namespace "math".            *)
C5_Witness ==
    /\ pc = "panicked"
    /\ result = Panic("geo")
    /\ cfg.namespace_id = "math"
    /\ Steps(trace) = <<"header">>

IsAsyncFunction(f) ==
    \E i \in 1..Len(f.signature.params) :
        f.signature.params[i].kind = "Pattern"
        /\ f.signature.params[i].pattern = "AsyncCallback"

(* C6: in every configuration, when a function of the current namespace    *)
(* has a parameter typed as an AsyncCallback pattern, its signature        *)
(* has_overloadable and the completed run has written the async trampoline *)
(* initializers inside the functions class scaffold.                       *)
C6_AsyncTrampolinesWritten ==
    \A i \in 1..Len(functions) :
        (pc = "done" /\ functions[i].module = cfg.namespace_id /\ IsAsyncFunction(functions[i])) =>
            /\ has_overloadable(functions[i].signature)
            /\ \E j \in 1..Len(trace) :
                   trace[j] = [step |-> "trampolines", scaffold |-> cfg.class]

OrderSingle ==
    <<"header", "imports", "namespace", "native_lib", "abi_guard", "trampolines",
      "constants", "functions", "types", "patterns", "builtins">>

OrderDual ==
    <<"header", "imports", "namespace", "constants", "native_lib", "abi_guard",
      "trampolines", "functions", "types", "patterns", "builtins">>

RankIn(order, step) == CHOOSE k \in 1..Len(order) : order[k] = step

(* The emission steps written so far, the class scaffold openings left out *)
EmissionSteps == SelectSeq(Steps(trace), LAMBDA x : x # "class")

InOrder(order) ==
    \A i, j \in 1..Len(EmissionSteps) :
        i < j => RankIn(order, EmissionSteps[i]) < RankIn(order, EmissionSteps[j])

(* C7, as claimed: in both configurations the emission steps occur in the  *)
(* order header, imports, namespace, native-library linkage, ABI guard,    *)
(* async trampoline initializers, constants, functions, type definitions,  *)
(* patterns, builtins.                                                     *)
C7_OneOrderForBothConfigurations == InOrder(OrderSingle)

(* C7, amended: with a single class scaffold the emission steps occur in   *)
(* the claimed order; with a distinct constants class the constants are    *)
(* written first, in their own scaffold, so the order is header, imports,  *)
(* namespace, constants, native-library linkage, ABI guard, (async         *)
(* trampoline initializers,) functions, type definitions, patterns,        *)
(* builtins.                                                               *)
C7_OrderPerConfiguration ==
    IF SingleScaffold(cfg) THEN InOrder(OrderSingle) ELSE InOrder(OrderDual)

(* C7 witness: a completed two-class run that wrote its constants, then    *)
(* the linkage declaration and the functions.                              *)
C7_Witness ==
    /\ pc = "done"
    /\ ~SingleScaffold(cfg)
    /\ Written("constants")
    /\ Written("native_lib")
    /\ Written("functions")

HasFunctionHere == \E i \in 1..Len(functions) : functions[i].module = cfg.namespace_id

HasConstantHere == \E i \in 1..Len(constants) : constants[i].module = cfg.namespace_id

(* The names of the class scaffolds opened, in order.                      *)
ClassesOpened ==
    LET opened == SelectSeq(trace, LAMBDA e : e.step = "class")
    IN  [i \in 1..Len(opened) |-> opened[i].scaffold]

(* Type definitions, patterns and builtins close the run, outside of any   *)
(* class scaffold.                                                         *)
TailWritten ==
    /\ Len(trace) >= 3
    /\ SubSeq(trace, Len(trace) - 2, Len(trace)) =
         <<[step |-> "types", scaffold |-> ""], [step |-> "patterns", scaffold |-> ""],
           [step |-> "builtins", scaffold |-> ""]>>

(* C8: in a completed run, if class_constants is unset or equals class,    *)
(* exactly one scaffold named class is opened, and only if a function or a *)
(* constant belongs to the current namespace; otherwise the class_constants *)
(* scaffold is opened iff a constant belongs to the current namespace and  *)
(* the class scaffold iff a function does, independently; type             *)
(* definitions, patterns and builtins are written after the scaffolds in   *)
(* every case.                                                             *)
C8_ScaffoldDecision ==
    pc = "done" =>
        /\ (cfg.class_constants = <<>> \/ cfg.class_constants[1] = cfg.class) =>
               ClassesOpened =
                   IF HasFunctionHere \/ HasConstantHere THEN <<cfg.class>> ELSE <<>>
        /\ (cfg.class_constants # <<>> /\ cfg.class_constants[1] # cfg.class) =>
               ClassesOpened =
                   (IF HasConstantHere THEN <<cfg.class_constants[1]>> ELSE <<>>)
                   \o (IF HasFunctionHere THEN <<cfg.class>> ELSE <<>>)
        /\ TailWritten

(* C8 witness: a completed two-class run with a constant but no function   *)
(* of the current namespace, although the inventory holds a function.      *)
C8_Witness ==
    /\ pc = "done"
    /\ cfg.class_constants = <<"Constants">>
    /\ ClassesOpened = <<"Constants">>
    /\ Len(functions) > 0
    /\ TailWritten

----------------------------------------------------------------------------
(* The type filter: an inventory of types is collected, then the type      *)
(* definitions are written for the types should_emit_by_type lets through. *)

CallbackSignature == Signature(<<Primitive>>, Primitive)

TypeUniverse ==
    LeafTypes
    \cup {FnPointer(CallbackSignature)}
    \cup {NamedCallback(m, CallbackSignature) : m \in ModuleIds}

(* The types a run with configuration self emits a definition for.         *)
TypesEmitted(self, ts) == {t \in ts : should_emit_by_type(self, t)}

InitEmit ==
    /\ cfg \in {c \in Configs : c.class_constants = <<>> /\ DOMAIN c.namespace_mappings = ModuleIds}
    /\ types = {}
    /\ emitted = [done |-> FALSE, types |-> {}]
    /\ GenIdle /\ MarshalIdle /\ VisIdle

inventory_add_type ==
    /\ ~emitted.done
    /\ Cardinality(types) < MaxTypes
    /\ \E t \in TypeUniverse \ types : types' = types \cup {t}
    /\ UNCHANGED <<cfg, emitted, genVars, marshalVars, visVars>>

emit_type_definitions ==
    /\ ~emitted.done
    /\ emitted' = [done |-> TRUE, types |-> TypesEmitted(cfg, types)]
    /\ UNCHANGED <<cfg, types, genVars, marshalVars, visVars>>

NextEmit == inventory_add_type \/ emit_type_definitions

SpecEmit == InitEmit /\ [][NextEmit]_vars

WithScope(w, n) == [cfg EXCEPT !.write_types = w, !.namespace_id = n]

HasOwner(t) == t.module # NoMeta

(* C2, as claimed: for every namespace id n, the types emitted with        *)
(* write_types = All, restricted to the types owned by n, are exactly the  *)
(* types emitted with write_types = Namespace and namespace_id = n.        *)
C2_AllRestrictedEqualsNamespace ==
    emitted.done =>
        \A n \in ModuleIds :
            {t \in TypesEmitted(WithScope("All", n), types) : t.module = n}
                = TypesEmitted(WithScope("Namespace", n), types)

(* C2, amended: for every namespace id n, every type that carries an       *)
(* owning module and is emitted with write_types = Namespace and           *)
(* namespace_id = n is owned by n and emitted with write_types = All, and  *)
(* every type owned by n that is not a global type is emitted with         *)
(* write_types = Namespace; the types without an owning module that the    *)
(* Namespace run emits (every FnPointer) are outside the equality.         *)
C2_NamespaceWithinAll ==
    emitted.done =>
        /\ \A n \in ModuleIds :
               /\ {t \in TypesEmitted(WithScope("Namespace", n), types) : HasOwner(t)}
                      \subseteq {t \in TypesEmitted(WithScope("All", n), types) : t.module = n}
               /\ {t \in TypesEmitted(WithScope("All", n), types) :
                       t.module = n /\ ~is_global_type(t)}
                      \subseteq TypesEmitted(WithScope("Namespace", n), types)
        /\ emitted.types = TypesEmitted(cfg, types)
        /\ cfg.write_types = "All" => emitted.types = types
        /\ cfg.write_types = "Namespace" =>
               {t \in emitted.types : HasOwner(t)} = {t \in types : t.module = cfg.namespace_id /\ ~is_global_type(t)}

(* C2 witness: a Namespace run over an inventory with a function pointer   *)
(* and a type of another namespace has emitted the function pointer only.  *)
C2_Witness ==
    /\ emitted.done
    /\ cfg.write_types = "Namespace"
    /\ \E t \in emitted.types : t.kind = "FnPointer"
    /\ \E t \in types \ emitted.types : HasOwner(t)

UserKinds == {"Enum", "Opaque", "Composite"}

(* C3: with write_types Namespace or NamespaceAndInteroptopusGlobal, an    *)
(* Enum, Opaque or Composite type is emitted iff its owning module is the  *)
(* configured namespace_id; a Composite owned by "geo" is emitted when     *)
(* generating for "geo" and not when generating for "math".                *)
C3_UserTypesFollowNamespace ==
    (emitted.done /\ cfg.write_types \in {"Namespace", "NamespaceAndInteroptopusGlobal"}) =>
        /\ \A t \in types :
               t.kind \in UserKinds => (t \in emitted.types <=> t.module = cfg.namespace_id)
        /\ should_emit_by_type(WithScope(cfg.write_types, "geo"), Named("Composite", "geo"))
        /\ ~should_emit_by_type(WithScope(cfg.write_types, "math"), Named("Composite", "geo"))

(* C3 witness: generating for "math" left out a Composite owned by "geo"   *)
(* and emitted an Enum owned by "math".                                    *)
C3_Witness ==
    /\ emitted.done
    /\ cfg.write_types = "Namespace"
    /\ cfg.namespace_id = "math"
    /\ Named("Composite", "geo") \in types \ emitted.types
    /\ Named("Enum", "math") \in emitted.types

(* C4: a FnPointer type and the CStrPointer and APIVersion patterns are    *)
(* emitted under every write_types value and every namespace_id.           *)
C4_NamespaceFreeTypesAlwaysEmitted ==
    emitted.done =>
        \A t \in types :
            (t.kind = "FnPointer" \/ IsPattern(t, "CStrPointer") \/ IsPattern(t, "APIVersion"))
                => t \in emitted.types

----------------------------------------------------------------------------
(* The marshalling classifier: a type is built by nesting callback         *)
(* signatures around a leaf type, then handed to is_custom_marshalled.     *)

ClassifierLeaves == {t \in LeafTypes : t.module \in {NoMeta, "geo"}}

(* The callbacks whose signature holds t: as the only parameter, as the    *)
(* return type, or as the second parameter after a Composite.              *)
Wraps(t) ==
    LET sigs == {Signature(<<t>>, Primitive),
                 Signature(<<>>, t),
                 Signature(<<Named("Composite", "geo"), t>>, Primitive)}
    IN  {FnPointer(s) : s \in sigs} \cup {NamedCallback("geo", s) : s \in sigs}

InitMarshal ==
    /\ cfg \in {c \in Configs : c.class_constants = <<>> /\ DOMAIN c.namespace_mappings = ModuleIds
                                /\ c.namespace_id = "geo" /\ c.write_types = DefaultWriteTypes}
    /\ ty \in ClassifierLeaves
    /\ depth = 0
    /\ marshalled = [done |-> FALSE, value |-> FALSE]
    /\ GenIdle /\ EmitIdle /\ VisIdle

wrap_in_callback ==
    /\ ~marshalled.done
    /\ depth < MaxDepth
    /\ ty' \in Wraps(ty)
    /\ depth' = depth + 1
    /\ UNCHANGED <<cfg, marshalled, genVars, emitVars, visVars>>

classify ==
    /\ ~marshalled.done
    /\ marshalled' = [done |-> TRUE, value |-> is_custom_marshalled(ty)]
    /\ UNCHANGED <<cfg, ty, depth, genVars, emitVars, visVars>>

NextMarshal == wrap_in_callback \/ classify

SpecMarshal == InitMarshal /\ [][NextMarshal]_vars

IsCallable(t) == t.kind = "FnPointer" \/ (t.kind = "Pattern" /\ t.pattern = "NamedCallback")

(* A type that needs marshalling glue by itself.                           *)
IsMarshalledLeaf(t) ==
    \/ t.kind \in {"Array", "Composite"}
    \/ (t.kind = "Pattern" /\ t.pattern \in {"Slice", "SliceMut"})

RequiresMarshalling(t) == IsMarshalledLeaf(t) \/ is_custom_marshalled(t)

InSignature(t) == Range(SigTypes(t.sig[1]))

(* C1, as claimed: a FnPointer or NamedCallback whose signature has a      *)
(* parameter or return type that requires marshalling is itself            *)
(* custom-marshalled, and a signature that contains it has a               *)
(* custom-marshalled delegate.                                             *)
C1_MonotoneInSignature ==
    (marshalled.done /\ IsCallable(ty)
        /\ \E x \in InSignature(ty) : RequiresMarshalling(x)) =>
            /\ marshalled.value
            /\ has_custom_marshalled_delegate(Signature(<<ty>>, Primitive))

(* C1, amended: a FnPointer or NamedCallback is custom-marshalled when a   *)
(* parameter or return type of its signature is itself a FnPointer or      *)
(* NamedCallback whose signature has a parameter or return type that       *)
(* requires marshalling; and a signature that contains a FnPointer or      *)
(* NamedCallback whose signature has such a type has a custom-marshalled   *)
(* delegate.                                                               *)
C1_MonotoneThroughNestedCallback ==
    (marshalled.done /\ IsCallable(ty)) =>
        /\ (\E x \in InSignature(ty) :
                IsCallable(x) /\ \E y \in InSignature(x) : RequiresMarshalling(y))
               => marshalled.value
        /\ (\E x \in InSignature(ty) : RequiresMarshalling(x)) =>
               /\ has_custom_marshalled_delegate(Signature(<<ty>>, Primitive))
               /\ has_custom_marshalled_delegate(Signature(<<>>, ty))

(* C1 witness: a callback of a callback of a slice was classified as       *)
(* custom-marshalled.                                                      *)
C1_Witness ==
    /\ marshalled.done
    /\ marshalled.value
    /\ depth = 2
    /\ \E x \in InSignature(ty) :
           IsCallable(x) /\ \E y \in InSignature(x) : y.kind = "Pattern" /\ y.pattern = "Slice"

(* C9: is_custom_marshalled(t) is true exactly when t is an Array or a     *)
(* Composite (should_emit_marshaller), or a Slice or SliceMut pattern, or  *)
(* a FnPointer or NamedCallback whose signature has a parameter or return  *)
(* type that is itself a FnPointer or NamedCallback whose signature holds  *)
(* a type satisfying is_custom_marshalled; it is false for every other     *)
(* type.                                                                   *)
C9_ClassifierCharacterised ==
    marshalled.done =>
        /\ marshalled.value <=>
               \/ ty.kind \in {"Array", "Composite"}
               \/ (ty.kind = "Pattern" /\ ty.pattern \in {"Slice", "SliceMut"})
               \/ /\ IsCallable(ty)
                  /\ \E x \in InSignature(ty) :
                         IsCallable(x) /\ \E y \in InSignature(x) : is_custom_marshalled(y)
        /\ should_emit_marshaller(ty) <=> ty.kind \in {"Array", "Composite"}
        /\ (~IsCallable(ty) /\ ~IsMarshalledLeaf(ty)) => ~marshalled.value

(* C9 witness: a callback nested four deep around a Composite was          *)
(* classified as custom-marshalled through two rounds of the recursion,    *)
(* its only marshalled leaf being the innermost type.                      *)
C9_Witness ==
    /\ marshalled.done
    /\ marshalled.value
    /\ depth = 4
    /\ Len(ty.sig[1].params) = 0
    /\ Len(ty.sig[1].rval.sig[1].params) = 0
    /\ Len(ty.sig[1].rval.sig[1].rval.sig[1].params) = 0
    /\ ty.sig[1].rval.sig[1].rval.sig[1].rval.sig[1].rval = Named("Composite", "geo")

----------------------------------------------------------------------------
(* Attributes::visibility_for_field of the #[ffi_type] macro.              *)

VisibilityKeys == {"x", "y", "_all"}

VisibilityValues == {"public", "private", "Public"}

FieldNames == {"x", "_all"}

(* syn::Visibility of the field.                                           *)
FieldVisibilities == {"Public", "Restricted", "Inherited"}

(* The match on x.as_str(): the Visibility named, or the panic.            *)
parse_visibility(x) ==
    CASE x = "public"  -> "Public"
      [] x = "private" -> "Private"
      [] OTHER         -> "Panic"

declared_visibility(f) == IF f.vis = "Public" THEN "Public" ELSE "Private"

(* The lookup order reversed, returning at the first override found.       *)
visibility_for_field_first_match(self, f, name) ==
    IF "_all" \in DOMAIN self THEN parse_visibility(self["_all"])
    ELSE IF name \in DOMAIN self THEN parse_visibility(self[name])
    ELSE declared_visibility(f)

(* self stands for self.visibility, the only field the method reads.       *)
visibility_for_field(self, f, name) ==
    LET declared == declared_visibility(f)
        by_name  == IF name \in DOMAIN self THEN parse_visibility(self[name]) ELSE declared
    IN  IF by_name = "Panic" THEN "Panic"
        ELSE IF "_all" \in DOMAIN self THEN parse_visibility(self["_all"])
        ELSE by_name

InitVis ==
    /\ cfg \in {c \in Configs : c.class_constants = <<>> /\ DOMAIN c.namespace_mappings = ModuleIds
                                /\ c.namespace_id = "geo" /\ c.write_types = DefaultWriteTypes}
    /\ attrs \in UNION {[d -> VisibilityValues] : d \in SUBSET VisibilityKeys}
    /\ field \in [name : FieldNames, vis : FieldVisibilities]
    /\ visibility = "None"
    /\ GenIdle /\ EmitIdle /\ MarshalIdle

call_visibility_for_field ==
    /\ visibility = "None"
    /\ visibility' = visibility_for_field(attrs, field, field.name)
    /\ UNCHANGED <<cfg, attrs, field, genVars, emitVars, marshalVars>>

NextVis == call_visibility_for_field

SpecVis == InitVis /\ [][NextVis]_vars

(* The overrides that apply to the field: its own name and "_all".         *)
ApplicableOverrides == {k \in DOMAIN attrs : k = field.name \/ k = "_all"}

ValidOverride(k) == attrs[k] \in {"public", "private"}

Capitalised(v) == IF v = "public" THEN "Public" ELSE "Private"

(* C10: if an override that applies to the field (under its own name or    *)
(* under "_all") is neither "public" nor "private" the call fails, even    *)
(* when the other applicable override is valid; when all applicable        *)
(* overrides are valid the result is the "_all" override if present, else  *)
(* the field-name override if present, else Public iff the field is        *)
(* declared pub.                                                           *)
C10_VisibilityOverrides ==
    visibility # "None" =>
        /\ (\E k \in ApplicableOverrides : ~ValidOverride(k)) => visibility = "Panic"
        /\ (\A k \in ApplicableOverrides : ValidOverride(k)) =>
               visibility =
                   IF "_all" \in DOMAIN attrs THEN Capitalised(attrs["_all"])
                   ELSE IF field.name \in DOMAIN attrs THEN Capitalised(attrs[field.name])
                   ELSE IF field.vis = "Public" THEN "Public" ELSE "Private"

(* C10 witness: the call failed on an invalid override under the field's   *)
(* name although the "_all" override was valid.                            *)
C10_Witness ==
    /\ visibility = "Panic"
    /\ field.name = "x"
    /\ "x" \in DOMAIN attrs
    /\ "_all" \in DOMAIN attrs
    /\ attrs["x"] = "Public"
    /\ attrs["_all"] = "private"

============================================================================
